---- MODULE Spec2Model ----
(***************************************************************************)
(* Model of src/main.py: the keyphrase post-processing of                  *)
(* extract_keywords_text (span reconstruction, normalisation, dedup,       *)
(* truncation) and the stage sequencing of main.                           *)
(*                                                                         *)
(* Python values: a str is a sequence of one-character strings; an         *)
(* optional value is a set with at most one element ({} is None); a dict   *)
(* is a function whose DOMAIN is its set of keys.                          *)
(***************************************************************************)
EXTENDS Integers, Sequences, FiniteSets, TLC

\* ------------------------------------------------------------------------
\* Python values and built-ins
\* ------------------------------------------------------------------------
None == {}
Some(x) == {x}
IsNone(o) == o = {}
Val(o) == CHOOSE x \in o : TRUE

Min2(a, b) == IF a <= b THEN a ELSE b
Max2(a, b) == IF a >= b THEN a ELSE b

\* str.isspace() characters occurring in the modelled texts
Whitespace == {" ", "\t"}

LowerToUpper ==
    ("a" :> "A") @@ ("b" :> "B") @@ ("c" :> "C") @@ ("d" :> "D") @@ ("e" :> "E") @@
    ("f" :> "F") @@ ("g" :> "G") @@ ("h" :> "H") @@ ("i" :> "I") @@ ("j" :> "J") @@
    ("k" :> "K") @@ ("l" :> "L") @@ ("m" :> "M") @@ ("n" :> "N") @@ ("o" :> "O") @@
    ("p" :> "P") @@ ("q" :> "Q") @@ ("r" :> "R") @@ ("s" :> "S") @@ ("t" :> "T") @@
    ("u" :> "U") @@ ("v" :> "V") @@ ("w" :> "W") @@ ("x" :> "X") @@ ("y" :> "Y") @@
    ("z" :> "Z")

\* str.upper()
Upper(s) == [i \in 1..Len(s) |-> IF s[i] \in DOMAIN LowerToUpper THEN LowerToUpper[s[i]] ELSE s[i]]

\* str.startswith(p)
StartsWith(s, p) == Len(s) >= Len(p) /\ SubSeq(s, 1, Len(p)) = p

\* p in s
Contains(s, p) == \E i \in 0..(Len(s) - Len(p)) : SubSeq(s, i + 1, i + Len(p)) = p

RECURSIVE LStrip(_)
LStrip(s) ==
    IF s = <<>> THEN s
    ELSE IF Head(s) \in Whitespace THEN LStrip(Tail(s)) ELSE s

RECURSIVE RStrip(_)
RStrip(s) ==
    IF s = <<>> THEN s
    ELSE IF s[Len(s)] \in Whitespace THEN RStrip(SubSeq(s, 1, Len(s) - 1)) ELSE s

\* str.strip()
Strip(s) == RStrip(LStrip(s))

RECURSIVE SplitAcc(_, _, _)
SplitAcc(s, cur, acc) ==
    IF s = <<>> THEN (IF cur = <<>> THEN acc ELSE Append(acc, cur))
    ELSE IF Head(s) \in Whitespace
         THEN SplitAcc(Tail(s), <<>>, IF cur = <<>> THEN acc ELSE Append(acc, cur))
         ELSE SplitAcc(Tail(s), Append(cur, Head(s)), acc)

\* str.split() with no separator: the maximal runs of non-whitespace
Split(s) == SplitAcc(s, <<>>, <<>>)

RECURSIVE Join(_, _)
\* sep.join(xs)
Join(sep, xs) ==
    IF xs = <<>> THEN <<>>
    ELSE IF Len(xs) = 1 THEN xs[1]
    ELSE xs[1] \o sep \o Join(sep, Tail(xs))

\* One bound of a slice: None takes the default, a negative index counts
\* from the end, and the bound is clamped to 0..Len.
SliceIndex(n, o, dflt) ==
    IF IsNone(o) THEN dflt
    ELSE IF Val(o) < 0 THEN Max2(0, n + Val(o))
    ELSE Min2(Val(o), n)

\* seq[lo:hi] for optional integers lo and hi
PySlice(seq, lo, hi) ==
    LET a == SliceIndex(Len(seq), lo, 0)
        b == SliceIndex(Len(seq), hi, Len(seq))
    IN  IF a >= b THEN <<>> ELSE SubSeq(seq, a + 1, b)

\* str(x) of an optional string
Str(o) == IF IsNone(o) THEN <<"N","o","n","e">> ELSE Val(o)

\* d.get(k) and d.get(k, dflt)
Get(d, k) == IF k \in DOMAIN d THEN d[k] ELSE None
GetD(d, k, dflt) == IF k \in DOMAIN d THEN d[k] ELSE dflt

\* bool(x) of an optional string: None and "" are falsy
Truthy(o) == ~IsNone(o) /\ Val(o) # <<>>

\* ------------------------------------------------------------------------
\* Program constants and literals
\* ------------------------------------------------------------------------
MaxKeywordsCap == 10
TaggingPrefix == 1500
SummaryPrefix == 3000
DefaultMaxKeywords == 10
MaxQuestions == 5

NO_KEYPHRASES == <<"N","o"," ","k","e","y","p","h","r","a","s","e","s"," ","f","o","u","n","d",".">>
FAILED_KEYWORDS == <<"F","a","i","l","e","d"," ","t","o"," ","e","x","t","r","a","c","t"," ","k","e","y","w","o","r","d","s",".">>
FAILED_SUMMARY == <<"F","a","i","l","e","d"," ","t","o"," ","s","u","m","m","a","r","i","z","e",".">>
FAILED_GENERATION == <<"F","a","i","l","e","d"," ","t","o"," ","g","e","n","e","r","a","t","e"," ","t","e","x","t",".">>
KEY_MARKER == <<"K","E","Y">>
COMMA_SPACE == <<",", " ">>
ItemKeys == {"start", "end", "label", "entity_group"}

\* ------------------------------------------------------------------------
\* extract_keywords_text: the steps of the function as operators
\* ------------------------------------------------------------------------

\* One element of the response: a dict is kept as it is, any other object is
\* read attribute by attribute, a missing attribute giving None.
NormalizeItem(r) ==
    IF r.isdict THEN r.f
    ELSE [k \in ItemKeys |-> IF k \in DOMAIN r.f THEN r.f[k] ELSE None]

NormalizeItems(raw) == [i \in 1..Len(raw) |-> NormalizeItem(raw[i])]

\* (variant: aggregated only when every item carries a group label)
AggregatedAll(its) ==
    its # <<>> /\ \A i \in 1..Len(its) : Truthy(Get(its[i], "entity_group"))

\* aggregated = any(it.get("entity_group") for it in items)
Aggregated(its) == \E i \in 1..Len(its) : Truthy(Get(its[i], "entity_group"))

\* The phrases one item adds in aggregated mode (none or one)
AggregatedPhrase(txt, it) ==
    LET grp == Upper(Str(GetD(it, "entity_group", Some(<<>>))))
    IN  IF Contains(grp, KEY_MARKER) /\ ~IsNone(Get(it, "start")) /\ ~IsNone(Get(it, "end"))
        THEN <<Strip(PySlice(txt, it["start"], it["end"]))>>
        ELSE <<>>

RECURSIVE AggregatedPhrases(_, _)
AggregatedPhrases(txt, its) ==
    IF its = <<>> THEN <<>>
    ELSE AggregatedPhrase(txt, Head(its)) \o AggregatedPhrases(txt, Tail(its))

\* The sort key of an item: an absent key reads 0, a present None stays None
SortKey(it) == <<GetD(it, "start", Some(0)), GetD(it, "end", Some(0))>>

\* Tuple comparison a < b raises TypeError when the first differing
\* components are not both integers.
KeyComparable(a, b) ==
    IF a[1] # b[1] THEN ~IsNone(a[1]) /\ ~IsNone(b[1])
    ELSE IF a[2] # b[2] THEN ~IsNone(a[2]) /\ ~IsNone(b[2])
    ELSE TRUE

KeyLess(a, b) ==
    IF a[1] # b[1] THEN Val(a[1]) < Val(b[1])
    ELSE IF a[2] # b[2] THEN Val(a[2]) < Val(b[2])
    ELSE FALSE

SortRaises(its) ==
    \E i, j \in 1..Len(its) : ~KeyComparable(SortKey(its[i]), SortKey(its[j]))

RECURSIVE InsertSorted(_, _)
\* x goes after every element that is not greater: the sort is stable
InsertSorted(sorted, x) ==
    IF sorted = <<>> THEN <<x>>
    ELSE IF KeyLess(SortKey(x), SortKey(Head(sorted))) THEN <<x>> \o sorted
    ELSE <<Head(sorted)>> \o InsertSorted(Tail(sorted), x)

RECURSIVE SortAcc(_, _)
SortAcc(its, acc) ==
    IF its = <<>> THEN acc ELSE SortAcc(Tail(its), InsertSorted(acc, Head(its)))

\* (variant: the items left in their order of arrival)
SortItemsArrival(its) == its

\* items.sort(key=lambda s: (s.get("start", 0), s.get("end", 0)))
SortItems(its) == SortAcc(its, <<>>)

\* The label of a token as the walk reads it
WalkLabel(s) == Upper(Str(GetD(s, "label", Some(<<>>))))

IsB(s) == StartsWith(WalkLabel(s), <<"B">>)
IsI(s) == StartsWith(WalkLabel(s), <<"I">>)

\* The state of the walk: the open span and the phrases emitted so far;
\* exc is set when the step raises (KeyError on an absent offset).
WalkState(cs, ce, ph, exc) == [cur_s |-> cs, cur_e |-> ce, phrases |-> ph, exc |-> exc]

\* phrases.append(text[cur_s:cur_e]) when a span is open
EmitOpen(txt, st) ==
    IF ~IsNone(st.cur_s) THEN Append(st.phrases, PySlice(txt, st.cur_s, st.cur_e))
    ELSE st.phrases

\* (variant: a begin token that drops the open span instead of emitting it)
StepBDropsOpen(txt, st, s) ==
    IF "start" \notin DOMAIN s \/ "end" \notin DOMAIN s
    THEN WalkState(st.cur_s, st.cur_e, st.phrases, TRUE)
    ELSE WalkState(s["start"], s["end"], st.phrases, FALSE)

\* Label starts with B: emit the open span, open a new one at the token
StepB(txt, st, s) ==
    IF "start" \notin DOMAIN s \/ "end" \notin DOMAIN s
    THEN WalkState(st.cur_s, st.cur_e, EmitOpen(txt, st), TRUE)
    ELSE WalkState(s["start"], s["end"], EmitOpen(txt, st), FALSE)

\* (variant: an inside token that leaves the end of the open span alone)
StepIKeepsEnd(txt, st, s) ==
    IF "end" \notin DOMAIN s
    THEN WalkState(st.cur_s, st.cur_e, st.phrases, TRUE)
    ELSE WalkState(st.cur_s, st.cur_e, st.phrases, FALSE)

\* Label starts with I and a span is open: the open span ends at the token's end
StepI(txt, st, s) ==
    IF "end" \notin DOMAIN s
    THEN WalkState(st.cur_s, st.cur_e, st.phrases, TRUE)
    ELSE WalkState(st.cur_s, s["end"], st.phrases, FALSE)

\* (variant: an outside token that emits the open span and leaves it open)
StepOKeepsOpen(txt, st, s) == WalkState(st.cur_s, st.cur_e, EmitOpen(txt, st), FALSE)

\* Any other token: emit the open span and clear it
StepO(txt, st, s) == WalkState(None, None, EmitOpen(txt, st), FALSE)

WalkStep(txt, st, s) ==
    IF IsB(s) THEN StepB(txt, st, s)
    ELSE IF IsI(s) /\ ~IsNone(st.cur_s) THEN StepI(txt, st, s)
    ELSE StepO(txt, st, s)

RECURSIVE WalkFrom(_, _, _)
WalkFrom(txt, st, its) ==
    IF its = <<>> \/ st.exc THEN st
    ELSE WalkFrom(txt, WalkStep(txt, st, Head(its)), Tail(its))

\* The loop over the sorted items and the emit after it
Walk(txt, its) ==
    LET st == WalkFrom(txt, WalkState(None, None, <<>>, FALSE), its)
    IN  IF st.exc THEN st ELSE WalkState(st.cur_s, st.cur_e, EmitOpen(txt, st), FALSE)

\* k = " ".join(p.split())
NormalizePhrase(p) == Join(<<" ">>, Split(p))

\* (variant: the dedup turn without the test on seen)
DedupStepUnseen(d, p) ==
    LET k == NormalizePhrase(p)
    IN  IF k # <<>>
        THEN [seen |-> d.seen \cup {k}, out |-> Append(d.out, k)]
        ELSE d

\* One turn of the dedup loop on the pair (seen, out)
DedupStep(d, p) ==
    LET k == NormalizePhrase(p)
    IN  IF k # <<>> /\ k \notin d.seen
        THEN [seen |-> d.seen \cup {k}, out |-> Append(d.out, k)]
        ELSE d

RECURSIVE DedupFrom(_, _)
DedupFrom(d, ps) ==
    IF ps = <<>> THEN d ELSE DedupFrom(DedupStep(d, Head(ps)), Tail(ps))

Dedup(ps) == DedupFrom([seen |-> {}, out |-> <<>>], ps).out

\* (variant: the clamp without its lower bound)
ClampWithoutFloor(mk) == Min2(mk, MaxKeywordsCap)

\* max_keywords = max(1, min(max_keywords, 10))
ClampMaxKeywords(mk) == Max2(1, Min2(mk, MaxKeywordsCap))

\* (variant: the join without the sentinel for an empty list)
ReturnValueAlwaysJoined(o, mk) ==
    Join(COMMA_SPACE, PySlice(o, None, Some(ClampMaxKeywords(mk))))

\* ", ".join(out[:max_keywords]) if out else "No keyphrases found."
ReturnValue(o, mk) ==
    IF o # <<>> THEN Join(COMMA_SPACE, PySlice(o, None, Some(ClampMaxKeywords(mk))))
    ELSE NO_KEYPHRASES

\* The phrases of a response (exc when sort or walk raises)
Phrases(txt, raw) ==
    LET its == NormalizeItems(raw)
    IN  IF Aggregated(its) THEN WalkState(None, None, AggregatedPhrases(txt, its), FALSE)
        ELSE IF SortRaises(its) THEN WalkState(None, None, <<>>, TRUE)
        ELSE Walk(txt, SortItems(its))

\* extract_keywords_text(text, max_keywords) when the remote call answers raw
ExtractKeywords(txt, raw, mk) ==
    LET w == Phrases(txt, raw)
    IN  IF w.exc THEN FAILED_KEYWORDS ELSE ReturnValue(Dedup(w.phrases), mk)

\* ------------------------------------------------------------------------
\* Responses of the token-classification call
\* ------------------------------------------------------------------------
MaxSpans == 3

B_KEY == <<"B","-","K","E","Y">>
I_KEY == <<"I","-","K","E","Y">>
O_TAG == <<"O">>

\* An element given as an object with attributes, and one given as a dict
Obj(s, e, l, g) == [isdict |-> FALSE, f |-> [start |-> s, end |-> e, label |-> l, entity_group |-> g]]
Dict(d) == [isdict |-> TRUE, f |-> d]

\* A per-token record and a pre-aggregated entity record
Token(s, e, l) == Obj(Some(s), Some(e), Some(l), None)
Entity(s, e, g) == Obj(Some(s), Some(e), None, Some(g))

RECURSIVE SeqsUpTo(_, _)
\* All sequences over S of length at most n
SeqsUpTo(S, n) ==
    IF n = 0 THEN {<<>>}
    ELSE LET shorter == SeqsUpTo(S, n - 1)
         IN  shorter \cup {Append(q, x) : q \in shorter, x \in S}

\* "a b<TAB> a": tokens a [0,1), b [2,3), "<TAB> a" [3,6)
SampleText == <<"a"," ","b","\t"," ","a">>
LongText == <<"a","b","c","d","e","f","g","h","i","j","k","l">>
MLText == <<"m","a","c","h","i","n","e"," ","l","e","a","r","n","i","n","g"," ","m","o","d","e","l","s">>
GraphText == <<"G","r","a","p","h"," ","d","a","t","a","b","a","s","e","s"," ","e","n","a","b","l","e"," ","f","a","s","t"," ","t","r","a","v","e","r","s","a","l",".">>

\* Per-token records over SampleText; [0,6) covers the others
RawBounds == {<<0, 1>>, <<2, 3>>, <<3, 6>>, <<0, 6>>}
RawTokens == {Token(b[1], b[2], l) : b \in RawBounds, l \in {B_KEY, I_KEY, O_TAG}}

\* Entity records and records without a usable group label
MixedTokens ==
    { Entity(0, 2, <<"K","E","Y">>),
      Entity(2, 5, <<"k","e","y">>),
      Entity(0, 1, <<"M","I","S","C">>),
      Entity(3, 5, <<"K","E","Y">>),
      Entity(0, 6, <<"K","E","Y","P","H","R","A","S","E">>),
      Token(0, 1, B_KEY),
      Dict([start |-> Some(2), end |-> Some(3), label |-> Some(B_KEY), entity_group |-> Some(<<>>)]) }

\* Records with an offset that is None or absent, among well-formed ones
MissingTokens ==
    { Obj(None, Some(2), None, Some(<<"K","E","Y">>)),
      Dict([start |-> Some(0), entity_group |-> Some(<<"K","E","Y">>)]),
      Entity(2, 3, <<"K","E","Y">>),
      Obj(Some(0), None, Some(B_KEY), None),
      Obj(None, Some(1), Some(B_KEY), None),
      Dict([end |-> Some(1), label |-> Some(B_KEY)]),
      Dict([start |-> Some(2), label |-> Some(I_KEY)]),
      Token(0, 1, B_KEY),
      Token(2, 3, I_KEY) }

\* Labels in lower case, a label that is None, a record without a label
CaseTokens ==
    { Token(0, 1, <<"b","-","k","e","y">>),
      Token(2, 3, <<"i","-","k","e","y">>),
      Token(3, 6, <<"o">>),
      Obj(Some(2), Some(3), None, None),
      Dict([start |-> Some(3), end |-> Some(6)]) }

\* Entities with the phrases "a", "b", "a b" and "a" again
CountTokens ==
    { Entity(0, 1, <<"K","E","Y">>), Entity(2, 3, <<"K","E","Y">>),
      Entity(0, 3, <<"K","E","Y">>), Entity(5, 6, <<"K","E","Y">>) }

CountArgs == {0 - 1, 0, 1, 2, 3, 11, 15}

\* Twelve one-letter entities over LongText
TwelveEntities == [i \in 1..12 |-> Entity(i - 1, i, <<"K","E","Y">>)]

\* The raw-mode and aggregated-mode scenarios
MLSpans == <<Token(8, 16, I_KEY), Token(0, 7, B_KEY), Token(17, 23, O_TAG)>>
GraphSpans == <<Entity(0, 16, <<"K","E","Y">>)>>

Answer(raw) == [exc |-> FALSE, raw |-> raw]
Raised == [exc |-> TRUE, raw |-> <<>>]

Call(txt, resp, mk) == [text |-> txt, response |-> resp, max_keywords |-> mk]

\* The calls of extract_keywords_text that are explored
Inputs ==
    {Call(SampleText, Answer(r), DefaultMaxKeywords) :
        r \in SeqsUpTo(RawTokens, MaxSpans) \cup SeqsUpTo(MixedTokens, MaxSpans)
              \cup SeqsUpTo(MissingTokens, MaxSpans) \cup SeqsUpTo(CaseTokens, MaxSpans)}
    \cup {Call(SampleText, Answer(r), mk) : r \in SeqsUpTo(CountTokens, MaxSpans), mk \in CountArgs}
    \cup {Call(LongText, Answer(TwelveEntities), mk) : mk \in {9, 10, 12, 15}}
    \cup {Call(MLText, Answer(MLSpans), DefaultMaxKeywords),
          Call(GraphText, Answer(GraphSpans), DefaultMaxKeywords),
          Call(SampleText, Raised, DefaultMaxKeywords)}

\* ------------------------------------------------------------------------
\* extract_keywords_text as a state machine
\* ------------------------------------------------------------------------
VARIABLES
    text,           \* argument text
    max_keywords,   \* argument max_keywords, reassigned by the clamp
    call,           \* the call: its arguments and what the remote call will answer
    pc,             \* position in the function
    raw,            \* local raw
    items,          \* local items
    aggregated,     \* local aggregated
    idx,            \* position of the running for loop (1-based)
    cur_s, cur_e,   \* the open span of the walk
    phrases,        \* local phrases
    seen, out,      \* locals of the dedup loop
    result          \* the returned string, None before the return

fvars == <<call, text, max_keywords, pc, raw, items, aggregated, idx,
           cur_s, cur_e, phrases, seen, out, result>>

\* main and its environment
VARIABLES
    hf_token,       \* HF_TOKEN is set in the environment
    remote,         \* what the inference service will answer to each stage
    mpc,            \* position in main
    main_text,      \* local text of main, None before the file is read
    summary,        \* local summary
    num_keywords,   \* local num_keywords
    keywords,       \* local keywords
    num_questions,  \* local num_questions
    prompt,         \* local prompt: the count and the text it is built from
    gen,            \* local gen
    requests        \* the requests sent to the inference service, in order

mainVars == <<hf_token, remote, mpc, main_text, summary, num_keywords, keywords,
              num_questions, prompt, gen, requests>>

vars == <<fvars, mainVars>>

NoAnswers == [summary |-> <<>>, tags |-> <<>>, chat |-> <<>>]

\* main is not running
MainIdle ==
    /\ hf_token = TRUE
    /\ remote = NoAnswers
    /\ mpc = "idle"
    /\ main_text = None
    /\ summary = None
    /\ num_keywords = None
    /\ keywords = None
    /\ num_questions = None
    /\ prompt = None
    /\ gen = None
    /\ requests = <<>>

Init ==
    /\ call \in Inputs
    /\ text = call.text
    /\ max_keywords = call.max_keywords
    /\ pc = "call"
    /\ raw = <<>>
    /\ items = <<>>
    /\ aggregated = FALSE
    /\ idx = 1
    /\ cur_s = None
    /\ cur_e = None
    /\ phrases = <<>>
    /\ seen = {}
    /\ out = <<>>
    /\ result = None
    /\ MainIdle

\* raw = hf_client.token_classification(text[:1500], ...)
RemoteCall ==
    /\ pc = "call"
    /\ \/ /\ call.response.exc
          /\ pc' = "except"
          /\ raw' = raw
       \/ /\ ~call.response.exc
          /\ raw' = call.response.raw
          /\ pc' = "normalize"
    /\ UNCHANGED <<text, max_keywords, call, items, aggregated, idx,
                   cur_s, cur_e, phrases, seen, out, result, mainVars>>

\* The position after the phrases are built
AfterPhrases(ph) == IF ph = <<>> THEN "return" ELSE "dedup"

\* items = [...]; phrases = []; aggregated = any(...)
Normalize ==
    /\ pc = "normalize"
    /\ items' = NormalizeItems(raw)
    /\ phrases' = <<>>
    /\ aggregated' = Aggregated(items')
    /\ idx' = 1
    /\ pc' = IF aggregated' THEN "agg" ELSE "sort"
    /\ UNCHANGED <<text, max_keywords, call, raw, cur_s, cur_e, seen, out, result, mainVars>>

\* One turn of the loop of aggregated mode
AggregatedStep ==
    /\ pc = "agg"
    /\ idx <= Len(items)
    /\ phrases' = phrases \o AggregatedPhrase(text, items[idx])
    /\ idx' = IF idx = Len(items) THEN 1 ELSE idx + 1
    /\ pc' = IF idx = Len(items) THEN AfterPhrases(phrases') ELSE "agg"
    /\ UNCHANGED <<text, max_keywords, call, raw, items, aggregated,
                   cur_s, cur_e, seen, out, result, mainVars>>

\* items.sort(...); cur_s = cur_e = None
Sort ==
    /\ pc = "sort"
    /\ \/ /\ SortRaises(items)
          /\ pc' = "except"
          /\ UNCHANGED <<items, cur_s, cur_e, idx>>
       \/ /\ ~SortRaises(items)
          /\ items' = SortItems(items)
          /\ cur_s' = None
          /\ cur_e' = None
          /\ idx' = 1
          /\ pc' = IF items = <<>> THEN "final" ELSE "walk"
    /\ UNCHANGED <<text, max_keywords, call, raw, aggregated, phrases, seen, out, result, mainVars>>

\* The walk takes the state st after the token at idx
WalkTo(st) ==
    /\ cur_s' = st.cur_s
    /\ cur_e' = st.cur_e
    /\ phrases' = st.phrases
    /\ idx' = IF st.exc \/ idx = Len(items) THEN 1 ELSE idx + 1
    /\ pc' = IF st.exc THEN "except" ELSE IF idx = Len(items) THEN "final" ELSE "walk"
    /\ UNCHANGED <<text, max_keywords, call, raw, items, aggregated, seen, out, result, mainVars>>

Open == WalkState(cur_s, cur_e, phrases, FALSE)

WalkB ==
    /\ pc = "walk"
    /\ IsB(items[idx])
    /\ WalkTo(StepB(text, Open, items[idx]))

WalkI ==
    /\ pc = "walk"
    /\ ~IsB(items[idx])
    /\ IsI(items[idx]) /\ ~IsNone(cur_s)
    /\ WalkTo(StepI(text, Open, items[idx]))

WalkO ==
    /\ pc = "walk"
    /\ ~IsB(items[idx])
    /\ ~(IsI(items[idx]) /\ ~IsNone(cur_s))
    /\ WalkTo(StepO(text, Open, items[idx]))

\* if cur_s is not None: phrases.append(text[cur_s:cur_e])
FinalEmit ==
    /\ pc = "final"
    /\ phrases' = EmitOpen(text, Open)
    /\ pc' = AfterPhrases(phrases')
    /\ UNCHANGED <<text, max_keywords, call, raw, items, aggregated, idx,
                   cur_s, cur_e, seen, out, result, mainVars>>

\* One turn of the dedup loop
DedupLoop ==
    /\ pc = "dedup"
    /\ idx <= Len(phrases)
    /\ LET d == DedupStep([seen |-> seen, out |-> out], phrases[idx])
       IN  seen' = d.seen /\ out' = d.out
    /\ idx' = IF idx = Len(phrases) THEN 1 ELSE idx + 1
    /\ pc' = IF idx = Len(phrases) THEN "return" ELSE "dedup"
    /\ UNCHANGED <<text, max_keywords, call, raw, items, aggregated,
                   cur_s, cur_e, phrases, result, mainVars>>

\* The clamp and the return
Return ==
    /\ pc = "return"
    /\ max_keywords' = ClampMaxKeywords(max_keywords)
    /\ result' = Some(ReturnValue(out, max_keywords))
    /\ pc' = "done"
    /\ UNCHANGED <<text, call, raw, items, aggregated, idx,
                   cur_s, cur_e, phrases, seen, out, mainVars>>

\* except Exception: return "Failed to extract keywords."
Except ==
    /\ pc = "except"
    /\ result' = Some(FAILED_KEYWORDS)
    /\ pc' = "failed"
    /\ UNCHANGED <<text, max_keywords, call, raw, items, aggregated, idx,
                   cur_s, cur_e, phrases, seen, out, mainVars>>

Next ==
    \/ RemoteCall
    \/ Normalize
    \/ AggregatedStep
    \/ Sort
    \/ WalkB
    \/ WalkI
    \/ WalkO
    \/ FinalEmit
    \/ DedupLoop
    \/ Return
    \/ Except

Spec == Init /\ [][Next]_vars

\* ------------------------------------------------------------------------
\* main: the stages and the prompts for the counts
\* ------------------------------------------------------------------------
DigitValue ==
    ("0" :> 0) @@ ("1" :> 1) @@ ("2" :> 2) @@ ("3" :> 3) @@ ("4" :> 4) @@
    ("5" :> 5) @@ ("6" :> 6) @@ ("7" :> 7) @@ ("8" :> 8) @@ ("9" :> 9)

RECURSIVE DigitsValue(_, _)
DigitsValue(ds, acc) ==
    IF ds = <<>> THEN acc ELSE DigitsValue(Tail(ds), 10 * acc + DigitValue[Head(ds)])

\* int(line.strip()): None stands for ValueError. A numeral is a run of
\* decimal digits after an optional sign.
ParseInt(line) ==
    LET t == Strip(line)
        signed == t # <<>> /\ t[1] \in {"+", "-"}
        ds == IF signed THEN Tail(t) ELSE t
    IN  IF ds = <<>> \/ \E i \in 1..Len(ds) : ds[i] \notin DOMAIN DigitValue THEN None
        ELSE Some(IF signed /\ t[1] = "-" THEN 0 - DigitsValue(ds, 0) ELSE DigitsValue(ds, 0))

\* What a stage hands back to main: raised is set when an exception leaves it
Handed(v) == [raised |-> FALSE, value |-> v]

\* (variant: summarize_text without its except clause)
SummarizeTextUnguarded(txt, ans) ==
    IF ans.exc \/ (ans.islist /\ ans.results = <<>>) \/ IsNone(ans.results[1])
    THEN [raised |-> TRUE, value |-> <<>>]
    ELSE Handed(Strip(Val(ans.results[1])))

\* summarize_text(text), the service answering ans: an exception, a list of
\* results or one result, each with an optional summary_text
SummarizeText(txt, ans) ==
    IF ans.exc THEN Handed(FAILED_SUMMARY)
    ELSE IF ans.islist /\ ans.results = <<>> THEN Handed(FAILED_SUMMARY)
    ELSE IF IsNone(ans.results[1]) THEN Handed(FAILED_SUMMARY)
    ELSE Handed(Strip(Val(ans.results[1])))

\* extract_keywords_text(text, max_keywords), the service answering ans
ExtractKeywordsText(txt, ans, mk) ==
    IF ans.exc THEN Handed(FAILED_KEYWORDS)
    ELSE Handed(ExtractKeywords(txt, ans.raw, mk))

\* generate_text(prompt), the service answering ans: an exception or the
\* choices, each with an optional message content
GenerateText(p, ans) ==
    IF ans.exc THEN Handed(FAILED_GENERATION)
    ELSE IF ans.choices = <<>> THEN Handed(FAILED_GENERATION)
    ELSE IF IsNone(ans.choices[1]) THEN Handed(FAILED_GENERATION)
    ELSE Handed(Strip(Val(ans.choices[1])))

\* 1 <= num_keywords <= 10 and 1 <= num_questions <= 5
KeywordCountAccepted(n) == 1 <= n /\ n <= MaxKeywordsCap
QuestionCountAccepted(n) == 1 <= n /\ n <= MaxQuestions

ASummary == <<" ","a"," ","b"," ">>

\* Answers to the summarization call: a single result carries islist FALSE
SummaryAnswers ==
    { [exc |-> TRUE, islist |-> FALSE, results |-> <<>>],
      [exc |-> FALSE, islist |-> TRUE, results |-> <<>>],
      [exc |-> FALSE, islist |-> TRUE, results |-> <<Some(ASummary), Some(<<"b">>)>>],
      [exc |-> FALSE, islist |-> FALSE, results |-> <<Some(<<"a","\t">>)>>],
      [exc |-> FALSE, islist |-> FALSE, results |-> <<None>>] }

\* Answers to the token-classification call
TagAnswers ==
    { Raised,
      Answer(<<>>),
      Answer(<<Token(2, 3, I_KEY), Token(0, 1, B_KEY), Token(3, 6, B_KEY)>>),
      Answer(<<Entity(0, 2, <<"K","E","Y">>), Entity(2, 5, <<"k","e","y">>)>>),
      Answer(<<Dict([end |-> Some(1), label |-> Some(B_KEY)])>>) }

\* Answers to the chat-completion call
ChatAnswers ==
    { [exc |-> TRUE, choices |-> <<>>],
      [exc |-> FALSE, choices |-> <<>>],
      [exc |-> FALSE, choices |-> <<None>>],
      [exc |-> FALSE, choices |-> <<Some(<<" ","Q","1"," ">>)>>] }

\* Lines typed at the prompts for the counts
CountLines ==
    { <<"1">>, <<" ","3"," ">>, <<"5">>, <<"1","0">>, <<"0">>, <<"6">>, <<"1","1">>,
      <<"-","1">>, <<"+","2">>, <<"x">>, <<>>, <<"2",".","5">> }

\* The files that can be read
Files == {SampleText, <<>>}

MainInit ==
    /\ hf_token \in BOOLEAN
    /\ remote \in [summary : SummaryAnswers, tags : TagAnswers, chat : ChatAnswers]
    /\ mpc = "start"
    /\ main_text = None
    /\ summary = None
    /\ num_keywords = None
    /\ keywords = None
    /\ num_questions = None
    /\ prompt = None
    /\ gen = None
    /\ requests = <<>>
    \* extract_keywords_text is modelled by ExtractKeywordsText here
    /\ call = Call(<<>>, Raised, DefaultMaxKeywords)
    /\ text = <<>>
    /\ max_keywords = DefaultMaxKeywords
    /\ pc = "idle"
    /\ raw = <<>>
    /\ items = <<>>
    /\ aggregated = FALSE
    /\ idx = 1
    /\ cur_s = None
    /\ cur_e = None
    /\ phrases = <<>>
    /\ seen = {}
    /\ out = <<>>
    /\ result = None

\* A request to the service: the stage, the count it was asked with and the
\* text it carries
Request(stage, n, payload) == [stage |-> stage, count |-> n, input |-> payload]

\* The position after a stage: an exception that leaves the stage ends main
AfterStage(h, next) == IF h.raised THEN "crashed" ELSE next

\* Module level: exit() when HF_TOKEN is missing
Startup ==
    /\ mpc = "start"
    /\ mpc' = IF hf_token THEN "load" ELSE "exited"
    /\ UNCHANGED <<hf_token, remote, main_text, summary, num_keywords, keywords,
                   num_questions, prompt, gen, requests, fvars>>

\* text = load_text(file_path): exit() when the file is not found
LoadText ==
    /\ mpc = "load"
    /\ \/ /\ \E f \in Files : main_text' = Some(f)
          /\ mpc' = "summarize"
       \/ /\ main_text' = main_text
          /\ mpc' = "exited"
    /\ UNCHANGED <<hf_token, remote, summary, num_keywords, keywords,
                   num_questions, prompt, gen, requests, fvars>>

\* summary = summarize_text(text)
Summarize ==
    /\ mpc = "summarize"
    /\ LET h == SummarizeText(Val(main_text), remote.summary)
       IN  /\ summary' = Some(h.value)
           /\ mpc' = AfterStage(h, "ask_keywords")
    /\ requests' = Append(requests, Request("summarize", None,
                                    PySlice(Val(main_text), None, Some(SummaryPrefix))))
    /\ UNCHANGED <<hf_token, remote, main_text, num_keywords, keywords,
                   num_questions, prompt, gen, fvars>>

\* One turn of the loop that asks for the number of keywords
AskKeywords ==
    /\ mpc = "ask_keywords"
    /\ \E line \in CountLines :
        LET n == ParseInt(line)
        IN  \/ /\ IsNone(n)
               /\ UNCHANGED <<num_keywords, mpc>>
            \/ /\ ~IsNone(n)
               /\ num_keywords' = n
               /\ mpc' = IF KeywordCountAccepted(Val(n)) THEN "keywords" ELSE "ask_keywords"
    /\ UNCHANGED <<hf_token, remote, main_text, summary, keywords,
                   num_questions, prompt, gen, requests, fvars>>

\* keywords = extract_keywords_text(text, max_keywords=num_keywords)
Keywords ==
    /\ mpc = "keywords"
    /\ LET h == ExtractKeywordsText(Val(main_text), remote.tags, Val(num_keywords))
       IN  /\ keywords' = Some(h.value)
           /\ mpc' = AfterStage(h, "ask_questions")
    /\ requests' = Append(requests, Request("keywords", num_keywords,
                                    PySlice(Val(main_text), None, Some(TaggingPrefix))))
    /\ UNCHANGED <<hf_token, remote, main_text, summary, num_keywords,
                   num_questions, prompt, gen, fvars>>

\* One turn of the loop that asks for the number of questions
AskQuestions ==
    /\ mpc = "ask_questions"
    /\ \E line \in CountLines :
        LET n == ParseInt(line)
        IN  \/ /\ IsNone(n)
               /\ UNCHANGED <<num_questions, mpc>>
            \/ /\ ~IsNone(n)
               /\ num_questions' = n
               /\ mpc' = IF QuestionCountAccepted(Val(n)) THEN "generate" ELSE "ask_questions"
    /\ UNCHANGED <<hf_token, remote, main_text, summary, num_keywords, keywords,
                   prompt, gen, requests, fvars>>

\* prompt = f"Generate {num_questions} ... {text}"; gen = generate_text(prompt)
Generate ==
    /\ mpc = "generate"
    /\ prompt' = Some([count |-> Val(num_questions), text |-> Val(main_text)])
    /\ LET h == GenerateText(Val(prompt'), remote.chat)
       IN  /\ gen' = Some(h.value)
           /\ mpc' = AfterStage(h, "done")
    /\ requests' = Append(requests, Request("generate", num_questions, Val(main_text)))
    /\ UNCHANGED <<hf_token, remote, main_text, summary, num_keywords, keywords,
                   num_questions, fvars>>

MainNext ==
    \/ Startup
    \/ LoadText
    \/ Summarize
    \/ AskKeywords
    \/ Keywords
    \/ AskQuestions
    \/ Generate

MainSpec == MainInit /\ [][MainNext]_vars

\* ------------------------------------------------------------------------
\* Properties of extract_keywords_text
\* ------------------------------------------------------------------------
Returned == pc = "done"

RECURSIVE SplitPhrases(_, _)
\* The phrases a returned string holds: its parts between ", " separators
\* (no modelled text has a comma, so no phrase holds the separator)
SplitPhrases(s, cur) ==
    IF s = <<>> THEN <<cur>>
    ELSE IF Len(s) >= 2 /\ s[1] = "," /\ s[2] = " "
         THEN <<cur>> \o SplitPhrases(SubSeq(s, 3, Len(s)), <<>>)
         ELSE SplitPhrases(Tail(s), Append(cur, Head(s)))

PhrasesHeld(s) == IF s = NO_KEYPHRASES THEN <<>> ELSE SplitPhrases(s, <<>>)

\* clamp(max_keywords, 1, 10) as the contract states it
Clamped(mk) == IF mk < 1 THEN 1 ELSE IF mk > 10 THEN 10 ELSE mk

\* C1: the returned string holds exactly the first min(N, clamp(max_keywords,
\* 1, 10)) phrases of the deduplicated list of length N, in order, for every
\* max_keywords (also <= 0 and > 10); twelve distinct phrases with
\* max_keywords = 15 give exactly ten.
C1_ReturnsFirstClampedPhrases ==
    Returned =>
        LET n == Len(out)
            k == Min2(n, Clamped(call.max_keywords))
            held == PhrasesHeld(Val(result))
        IN  /\ held = SubSeq(out, 1, k)
            /\ Len(held) <= Clamped(call.max_keywords)
            /\ (n = 12 /\ call.max_keywords = 15) => Len(held) = 10

C1_Witness ==
    /\ Returned
    /\ call.max_keywords = 15
    /\ Len(out) = 12
    /\ Len(PhrasesHeld(Val(result))) = 10

C1_WitnessBelowOne ==
    /\ Returned
    /\ call.max_keywords < 1
    /\ Len(out) >= 2
    /\ PhrasesHeld(Val(result)) = <<out[1]>>

\* C6: an empty deduplicated list returns the sentinel "No keyphrases
\* found.", and no call returns the empty string.
C6_EmptyListReturnsSentinel ==
    /\ (Returned /\ out = <<>>) => result = Some(NO_KEYPHRASES)
    /\ pc \in {"done", "failed"} => (~IsNone(result) /\ Val(result) # <<>>)

C6_Witness ==
    /\ Returned
    /\ phrases # <<>>
    /\ \A i \in 1..Len(phrases) : \A j \in 1..Len(phrases[i]) : phrases[i][j] \in Whitespace
    /\ out = <<>>
    /\ result = Some(NO_KEYPHRASES)

\* The indices of the raw phrases that are the first with their (non-empty)
\* normalized form, and the a-th smallest of them
FirstOccurrences(ps) ==
    {i \in 1..Len(ps) :
        /\ NormalizePhrase(ps[i]) # <<>>
        /\ \A j \in 1..(i - 1) : NormalizePhrase(ps[j]) # NormalizePhrase(ps[i])}

NthOf(F, a) == CHOOSE i \in F : Cardinality({j \in F : j < i}) = a - 1

\* k is whitespace-normalized: single spaces only, none leading or trailing
IsNormalForm(k) ==
    /\ k # <<>>
    /\ \A i \in 1..Len(k) : k[i] \in Whitespace => k[i] = " "
    /\ k[1] # " " /\ k[Len(k)] # " "
    /\ \A i \in 1..(Len(k) - 1) : ~(k[i] = " " /\ k[i + 1] = " ")

\* The raw phrases the dedup loop has taken so far
Deduped ==
    IF pc = "dedup" THEN SubSeq(phrases, 1, idx - 1)
    ELSE IF pc \in {"return", "done"} THEN phrases
    ELSE <<>>

\* C3: the dedup output has no two equal entries and no empty entry, every
\* entry is the whitespace-normalized form of a raw phrase, and the entries
\* stand in the order of the first occurrence of their normalized form.
C3_DedupKeepsFirstOccurrences ==
    pc \in {"dedup", "return", "done"} =>
        LET F == FirstOccurrences(Deduped)
        IN  /\ \A a, b \in 1..Len(out) : a # b => out[a] # out[b]
            /\ \A a \in 1..Len(out) : IsNormalForm(out[a])
            /\ Len(out) = Cardinality(F)
            /\ \A a \in 1..Len(out) : out[a] = NormalizePhrase(Deduped[NthOf(F, a)])
            /\ seen = {out[a] : a \in 1..Len(out)}

\* two raw phrases that differ, with one normalized form, and a later new one
C3_Witness ==
    /\ Returned
    /\ \E i, j, l \in 1..Len(phrases) :
        /\ i < j /\ l \notin {i, j}
        /\ phrases[i] # phrases[j]
        /\ NormalizePhrase(phrases[i]) = NormalizePhrase(phrases[j])
        /\ NormalizePhrase(phrases[l]) # NormalizePhrase(phrases[i])
        /\ NormalizePhrase(phrases[l]) # <<>>
    /\ Len(out) = 2

\* ------------------------------------------------------------------------
\* Properties of the two modes
\* ------------------------------------------------------------------------

\* A record carries a non-empty group label
HasGroup(r) ==
    /\ "entity_group" \in DOMAIN r.f
    /\ r.f["entity_group"] # None
    /\ Len(Val(r.f["entity_group"])) > 0

\* An offset of the record is absent or None
MissingOffset(r) ==
    \/ "start" \notin DOMAIN r.f \/ "end" \notin DOMAIN r.f
    \/ r.f["start"] = None \/ r.f["end"] = None

\* A well-formed per-token record: offsets and label are there, start <= end
WellFormed(it) ==
    /\ {"start", "end", "label"} \subseteq DOMAIN it
    /\ it["start"] # None /\ it["end"] # None /\ it["label"] # None
    /\ 0 <= Val(it["start"]) /\ Val(it["start"]) <= Val(it["end"])

AllWellFormed(its) == \A i \in 1..Len(its) : WellFormed(its[i])

\* The role of a well-formed token: the first letter of its label
Role(it) ==
    LET l == Val(it["label"])
    IN  IF l # <<>> /\ l[1] \in {"B", "b"} THEN "B"
        ELSE IF l # <<>> /\ l[1] \in {"I", "i"} THEN "I"
        ELSE "O"

\* text[s:e] for offsets 0 <= s <= e within the text
Sub(txt, s, e) == SubSeq(txt, s + 1, Min2(e, Len(txt)))

\* The walk of raw mode is at work on well-formed tokens
RawWalk == pc \in {"walk", "final"} /\ AllWellFormed(items)

\* The walk of raw mode has ended on well-formed tokens
RawWalked ==
    /\ pc \in {"dedup", "return", "done"}
    /\ ~(\E i \in 1..Len(raw) : HasGroup(raw[i]))
    /\ AllWellFormed(items)

NoOpenSpan == cur_s = None
OpenPhrase == Sub(text, Val(cur_s), Val(cur_e))
Emitted == IF NoOpenSpan THEN phrases ELSE Append(phrases, OpenPhrase)

\* One step of the two-state machine {NoOpenSpan, OpenSpan(start, end)}
MachineStep ==
    /\ (pc = "walk" /\ AllWellFormed(items)) =>
        LET s == items[idx]
        IN  /\ pc' \in {"walk", "final"}
            /\ CASE Role(s) = "B" ->
                      /\ phrases' = Emitted
                      /\ cur_s' = s["start"] /\ cur_e' = s["end"]
                 [] Role(s) = "I" /\ ~NoOpenSpan ->
                      /\ phrases' = phrases
                      /\ cur_s' = cur_s /\ cur_e' = s["end"]
                 [] OTHER ->
                      /\ phrases' = Emitted
                      /\ cur_s' = None /\ cur_e' = None
    /\ (pc = "final" /\ AllWellFormed(items)) => phrases' = Emitted

MachineLearning == <<"m","a","c","h","i","n","e"," ","l","e","a","r","n","i","n","g">>

MLScenario ==
    (call.text = MLText /\ call.response = Answer(MLSpans) /\ pc \in {"dedup", "return", "done"})
        => phrases = <<MachineLearning>>

\* C4: in raw mode with well-formed spans the walk is the two-state machine:
\* B emits the open span and opens a new one at the token's bounds, I with an
\* open span sets its end to the token's end, anything else (a lone I too)
\* emits the open span and leaves NoOpenSpan, and an open span is emitted
\* after the last token; the "machine learning models" scenario gives
\* ["machine learning"].
C4_WalkIsTwoStateMachine == [][MachineStep]_vars /\ []MLScenario

\* a lone I has been dropped without a phrase and without an error
C4_Witness ==
    /\ pc = "final"
    /\ AllWellFormed(items)
    /\ Len(items) >= 2
    /\ Role(items[1]) = "I"
    /\ Role(items[2]) = "B"
    /\ phrases = <<>>
    /\ cur_s = items[2]["start"]

C4_WitnessScenario ==
    /\ Returned
    /\ call.text = MLText
    /\ phrases = <<MachineLearning>>

\* The letters K, E, Y in a row, in either case
HasKeyMarker(g) ==
    \E i \in 1..(Len(g) - 2) :
        g[i] \in {"K", "k"} /\ g[i + 1] \in {"E", "e"} /\ g[i + 2] \in {"Y", "y"}

\* The records that give a phrase in aggregated mode
KeyEntities(rs) ==
    {i \in 1..Len(rs) :
        /\ "entity_group" \in DOMAIN rs[i].f
        /\ rs[i].f["entity_group"] # None
        /\ HasKeyMarker(Val(rs[i].f["entity_group"]))
        /\ ~MissingOffset(rs[i])}

\* C5: one span with a non-empty group label puts every span in aggregated
\* mode and the walk is not run; the phrases are then text[start:end],
\* trimmed, of exactly the spans whose group label holds "KEY" (in any case)
\* and whose offsets are present, in input order; with no such label raw
\* mode is used.
C5_ModeAndAggregatedPhrases ==
    LET grouped == \E i \in 1..Len(raw) : HasGroup(raw[i])
        K == KeyEntities(raw)
    IN  /\ pc \in {"agg", "sort", "walk", "final", "dedup"} => aggregated = grouped
        /\ grouped => pc \notin {"sort", "walk", "final"}
        /\ ~grouped => pc # "agg"
        /\ (grouped /\ pc \in {"dedup", "return", "done"}) =>
              /\ Len(phrases) = Cardinality(K)
              /\ \A a \in 1..Len(phrases) :
                    LET r == raw[NthOf(K, a)].f
                    IN  phrases[a] = Strip(Sub(text, Val(r["start"]), Val(r["end"])))

\* a per-token record and an entity without the marker give nothing, a
\* lower-case marker gives a phrase, and the input order is kept
C5_Witness ==
    /\ Returned
    /\ Len(raw) = 3
    /\ HasGroup(raw[1]) /\ ~HasGroup(raw[2]) /\ HasGroup(raw[3])
    /\ KeyEntities(raw) = {1, 3}
    /\ Val(raw[1].f["start"]) > Val(raw[3].f["start"])
    /\ Val(raw[1].f["entity_group"]) = <<"k","e","y">>
    /\ Len(phrases) = 2

C5_WitnessRaw ==
    /\ pc = "walk"
    /\ Len(raw) = 2
    /\ "entity_group" \in DOMAIN raw[1].f /\ raw[1].f["entity_group"] = Some(<<>>)

\* The items stand in ascending (start, end) order
Ascending(its) ==
    \A i \in 1..(Len(its) - 1) :
        \/ Val(its[i]["start"]) < Val(its[i + 1]["start"])
        \/ /\ its[i]["start"] = its[i + 1]["start"]
           /\ Val(its[i]["end"]) <= Val(its[i + 1]["end"])

Orderings(n) == {f \in [1..n -> 1..n] : \A i, j \in 1..n : i # j => f[i] # f[j]}
Permuted(rs, f) == [i \in 1..Len(rs) |-> rs[f[i]]]

DistinctBounds(rs) ==
    \A i, j \in 1..Len(rs) :
        i # j => <<rs[i].f["start"], rs[i].f["end"]>> # <<rs[j].f["start"], rs[j].f["end"]>>

\* A response of well-formed per-token records
RawResponse(rs) ==
    /\ ~(\E i \in 1..Len(rs) : HasGroup(rs[i]))
    /\ AllWellFormed(NormalizeItems(rs))

\* C7: in raw mode the spans are walked in ascending (start, end) order
\* whatever order they arrive in: when the (start, end) pairs are pairwise
\* distinct, every permutation of the response gives the same string.
C7_OrderOfArrivalIsIrrelevant ==
    /\ RawWalk => Ascending(items)
    /\ (Returned /\ RawResponse(raw) /\ DistinctBounds(raw)) =>
          \A f \in Orderings(Len(raw)) :
              ExtractKeywords(text, Permuted(raw, f), call.max_keywords) = Val(result)

\* tokens that arrived in descending order and were merged into one phrase
C7_Witness ==
    /\ Returned
    /\ RawResponse(raw) /\ DistinctBounds(raw)
    /\ Len(raw) = 3
    /\ Val(raw[1].f["start"]) > Val(raw[2].f["start"])
    /\ Val(raw[2].f["start"]) > Val(raw[3].f["start"])
    /\ Role(raw[3].f) = "B" /\ Role(raw[2].f) = "I" /\ Role(raw[1].f) = "I"
    /\ Len(phrases) = 1

\* The B tokens among the first n sorted items
BTokens(its, n) == {i \in 1..Min2(n, Len(its)) : Role(its[i]) = "B"}

\* The last token merged into the span that the B token at b opens: the end
\* of the run of I tokens that follows it
LastMerged(its, b) ==
    CHOOSE j \in b..Len(its) :
        /\ \A m \in (b + 1)..j : Role(its[m]) = "I"
        /\ j = Len(its) \/ Role(its[j + 1]) # "I"

\* An I token with a span open, among well-formed tokens
InsideStep ==
    /\ pc = "walk"
    /\ AllWellFormed(items)
    /\ Role(items[idx]) = "I"
    /\ ~NoOpenSpan

\* C8 as stated: an I token only extends the open span, the end of the open
\* span is never smaller after an I step than before it.
C8_InsideNeverShrinks == [][InsideStep => Val(cur_e') >= Val(cur_e)]_vars

\* No token ends before the token that precedes it in the sorted order
NotNested(its) ==
    \A i \in 1..(Len(its) - 1) : Val(its[i]["end"]) <= Val(its[i + 1]["end"])

InsideSetsEnd ==
    InsideStep =>
        /\ cur_s' = cur_s
        /\ cur_e' = items[idx]["end"]
        /\ NotNested(items) => Val(cur_e') >= Val(cur_e)

PhrasesEndAtLastMerged ==
    RawWalked =>
        LET B == BTokens(items, Len(items))
        IN  \A a \in 1..Min2(Len(phrases), Cardinality(B)) :
                LET b == NthOf(B, a)
                IN  phrases[a] = Sub(text, Val(items[b]["start"]),
                                     Val(items[LastMerged(items, b)]["end"]))

\* C8 (amended): an I token sets the end of the open span to the token's end,
\* which is not smaller than before when no token is nested in the one
\* before it; every emitted phrase is text[s:e] with s the start of its B
\* token and e the end of the last token merged into it.
C8_InsideSetsEndToToken == [][InsideSetsEnd]_vars /\ []PhrasesEndAtLastMerged

\* a B token and a nested I token gave a phrase that ends before the B token
C8_Witness ==
    /\ RawWalked
    /\ Len(items) = 2
    /\ Role(items[1]) = "B" /\ Role(items[2]) = "I"
    /\ Val(items[2]["end"]) < Val(items[1]["end"])
    /\ phrases = <<Sub(text, Val(items[1]["start"]), Val(items[2]["end"]))>>

\* The spans opened so far and not yet emitted
Pending == IF pc \in {"walk", "final"} /\ ~NoOpenSpan THEN 1 ELSE 0

\* The tokens the walk has taken
Walked == IF pc = "walk" THEN idx - 1 ELSE Len(items)

\* C9: in raw mode with well-formed spans every span opened by a B token is
\* emitted exactly once and nothing else is emitted: the phrases emitted plus
\* the span still open number the B tokens taken so far, and once the walk and
\* the final emit are done the raw phrases number the B tokens, none pending.
C9_OnePhrasePerBToken ==
    /\ RawWalk => Len(phrases) + Pending = Cardinality(BTokens(items, Walked))
    /\ RawWalked => Len(phrases) = Cardinality(BTokens(items, Len(items)))

\* spans closed by the next B, by an outside token and by the final emit
C9_Witness ==
    /\ RawWalked
    /\ Len(items) = 4 \/ Len(items) = 3
    /\ Role(items[1]) = "B" /\ Role(items[2]) = "B" /\ Role(items[3]) = "O"
    /\ Len(phrases) = 2

C9_WitnessFinalEmit ==
    /\ RawWalked
    /\ Len(items) = 2
    /\ Role(items[1]) = "O" /\ Role(items[2]) = "B"
    /\ Len(phrases) = 1

\* The response without its i-th record
Without(rs, i) == SubSeq(rs, 1, i - 1) \o SubSeq(rs, i + 1, Len(rs))

\* C2: a span whose start or end is missing (absent or None) is skipped
\* silently in both modes: the call returns what it returns for the response
\* without that span, and not the failure string.
C2_MissingOffsetIsSkipped ==
    (pc \in {"done", "failed"} /\ ~call.response.exc) =>
        \A i \in 1..Len(raw) :
            MissingOffset(raw[i]) =>
                /\ pc # "failed"
                /\ Val(result) = ExtractKeywords(text, Without(raw, i), call.max_keywords)

\* ------------------------------------------------------------------------
\* Properties of main
\* ------------------------------------------------------------------------
Stages == <<"summarize", "keywords", "generate">>

\* The stages main has been through at its position
StagesDone ==
    CASE mpc \in {"start", "load", "exited", "summarize"} -> 0
      [] mpc \in {"ask_keywords", "keywords"} -> 1
      [] mpc \in {"ask_questions", "generate"} -> 2
      [] mpc = "done" -> 3
      [] OTHER -> Len(requests)

\* C10: an exception of the remote call or of the parsing of its answer never
\* leaves a stage: the stage hands back its fallback string and main goes on;
\* the stages run in the order summarize, keywords, generate, each at most
\* once, extract_keywords_text is called with a count in 1..10 only and the
\* prompt is built with a count in 1..5 only.
C10_StagesNeverRaiseAndRunInOrder ==
    /\ mpc # "crashed"
    /\ Len(requests) = StagesDone
    /\ \A i \in 1..Len(requests) : requests[i].stage = Stages[i]
    /\ \A i \in 1..Len(requests) :
          /\ requests[i].stage = "keywords" => Val(requests[i].count) \in 1..10
          /\ requests[i].stage = "generate" => Val(requests[i].count) \in 1..5
    /\ prompt # None => Val(prompt).count \in 1..5
    /\ (Len(requests) >= 1 /\ remote.summary.exc) => summary = Some(FAILED_SUMMARY)
    /\ (Len(requests) >= 2 /\ remote.tags.exc) => keywords = Some(FAILED_KEYWORDS)
    /\ (Len(requests) >= 2 /\ ~remote.tags.exc
            /\ \E i \in 1..Len(remote.tags.raw) : "start" \notin DOMAIN remote.tags.raw[i].f)
          => keywords = Some(FAILED_KEYWORDS)
    /\ (Len(requests) >= 3 /\ remote.chat.exc) => gen = Some(FAILED_GENERATION)

\* every stage fell back and main still reached its end
C10_Witness ==
    /\ mpc = "done"
    /\ remote.summary.exc /\ remote.tags.exc /\ remote.chat.exc
    /\ summary = Some(FAILED_SUMMARY)
    /\ keywords = Some(FAILED_KEYWORDS)
    /\ gen = Some(FAILED_GENERATION)
    /\ Len(requests) = 3

\* the parsing of the tagging answer raised and main still reached its end
C10_WitnessParsing ==
    /\ mpc = "done"
    /\ ~remote.tags.exc
    /\ keywords = Some(FAILED_KEYWORDS)
    /\ gen # Some(FAILED_GENERATION)

====
